---- MODULE Spec2Model ----
(***************************************************************************)
(* Model of the product recommendation engine of the e-commerce project    *)
(* (recommendations/engine.py), of the two HTTP views that call it         *)
(* (recommendations/views.py, products/views.py) and of the Product table  *)
(* it reads (products/models.py).                                          *)
(*                                                                         *)
(* Scores are fixed-point numbers in thousandths: 1000 stands for 1.0,     *)
(* 500 for 0.5, 100 for 0.1.  An optional Python value is a sequence of    *)
(* length at most one: <<>> is None and <<v>> is the value v.              *)
(***************************************************************************)
EXTENDS Integers, Sequences, FiniteSets, Bags, TLC

\* ------------------------------------------------------------------ bounds
\* The largest product id of the Product table.
MaxProducts == 3

\* ------------------------------------------------------- program constants
\* recommendations/views.py: request.GET.get('num_recommendations', 4)
DefaultNumRecommendations == 4
\* products/views.py: request.GET.get('num_recommendations', 5)
DefaultNumRecommendationsView == 5
\* products/views.py: min(max(num_recommendations, 1), 20)
MinNumRecommendations == 1
MaxNumRecommendations == 20
\* engine.py _get_fallback_recommendations: final_score=0.1
FallbackFinalScore == 100
\* engine.py _get_fallback_recommendations: similarity_score=0.0
FallbackSimilarityScore == 0

\* ------------------------------------------------------------ Python values
None == <<>>
Some(v) == <<v>>
Val(o) == o[1]

SetMin(S) == CHOOSE x \in S : \A y \in S : x <= y
SetMax(S) == CHOOSE x \in S : \A y \in S : x >= y
Minimum(a, b) == IF a <= b THEN a ELSE b
Maximum(a, b) == IF a >= b THEN a ELSE b

\* The integer square root, for the norms of the 0/1 feature vectors.
ISqrt(n) == CHOOSE r \in 0..n : r * r <= n /\ (r + 1) * (r + 1) > n

\* ------------------------------------------------------------ Product table
ProductIds == 1..MaxProducts

\* The rows an administrator can put in the Product table: Product.category
\* and Product.price of the product with a given id.
ProductCategory(id) == IF id % 4 = 3 THEN "Books" ELSE "Electronics"

ProductPrice(id) ==
    CASE id % 4 = 1 -> 100
      [] id % 4 = 2 -> 120
      [] id % 4 = 3 -> 20
      [] OTHER -> 150

\* Product.objects.all().values('id', 'name', 'price', 'category') for one row
\* (the name plays no part in the engine and is left out).
ProductRow(id) == [id |-> id, category |-> ProductCategory(id), price |-> ProductPrice(id)]

\* str.lower() on the category names of the table.
Lower(category) == IF category = "Electronics" THEN "electronics" ELSE "books"

VARIABLES
    catalog,            \* ids of the rows of the Product table (the database)
    products_df,        \* engine.products_df: None, or the set of rows of the frame
    feature_matrix,     \* engine.feature_matrix: None, or row id -> set of columns set to 1
    similarity_matrix,  \* engine.similarity_matrix: None, or <<i, j>> -> score
    is_loaded,          \* engine.is_loaded
    ret,                \* the engine call made by the last step and what it returned
    http,               \* the HTTP response of the last step
    calls,              \* the engine calls in flight on the threads of the server
    feedback_log,       \* the arguments of the update_with_feedback calls made so far
    users,              \* the rows of the User table
    interactions,       \* the rows of the UserInteraction table
    cart_items,         \* the rows of the CartItem table
    orders,             \* the rows of the Order table, each with its OrderItem rows
    session_cart,       \* request.session['cart'] of the one browser session
    requests,           \* the checkout and interaction requests in flight
    product_price       \* Product.price of every product id

vars ==
    <<catalog, products_df, feature_matrix, similarity_matrix, is_loaded, ret, http,
      calls, feedback_log, users, interactions, cart_items, orders, session_cart,
      requests, product_price>>

\* The fields of the engine object.
engineVars == <<products_df, feature_matrix, similarity_matrix, is_loaded>>

\* What the engine's sequential callers leave alone.
storeVars == <<calls, feedback_log, users, interactions, cart_items, orders, session_cart,
  requests, product_price>>

\* The engine object as a record of its fields.
Engine ==
    [products_df |-> products_df, feature_matrix |-> feature_matrix,
     similarity_matrix |-> similarity_matrix, is_loaded |-> is_loaded]

\* ------------------------------------------------------------------ engine

\* pd.cut(normalized_prices, bins=3, labels=['low', 'medium', 'high']) of one
\* price: normalized = (price - min) / (max - min), cut at 1/3 and 2/3 with
\* right-closed intervals; when all prices are equal every normalized price is
\* 0.5, which pd.cut puts in the middle one of its three bins around 0.5.
PriceBin(price, price_min, price_max) ==
    IF price_max > price_min
    THEN IF 3 * (price - price_min) <= (price_max - price_min) THEN "low"
         ELSE IF 3 * (price - price_min) <= 2 * (price_max - price_min) THEN "medium"
         ELSE "high"
    ELSE "medium"

\* The one-hot category columns and price-bin columns of every row: the set of
\* the columns that hold 1 in the row.
_create_feature_matrix(df) ==
    LET price_min == SetMin({r.price : r \in df})
        price_max == SetMax({r.price : r \in df})
    IN  [id \in {r.id : r \in df} |->
            LET r == CHOOSE x \in df : x.id = id
            IN  {<<"category", r.category>>,
                 <<"price", PriceBin(r.price, price_min, price_max)>>}]

\* np.fill_diagonal(similarity_matrix, 0)
fill_diagonal(matrix, v) ==
    [p \in DOMAIN matrix |-> IF p[1] = p[2] THEN v ELSE matrix[p]]

\* The mutant leaves the diagonal as the division computed it.
Mutant_calculate_cosine_similarity_python(features) ==
    LET ids == DOMAIN features
        dot_product(i, j) == Cardinality(features[i] \cap features[j])
        norms2(i) == Cardinality(features[i])
    IN  [p \in ids \X ids |->
            (1000 * dot_product(p[1], p[2])) \div ISqrt(norms2(p[1]) * norms2(p[2]))]

\* dot_product / (norms[:, newaxis] * norms[newaxis, :]), then a zero diagonal.
_calculate_cosine_similarity_python(features) ==
    LET ids == DOMAIN features
        dot_product(i, j) == Cardinality(features[i] \cap features[j])
        norms2(i) == Cardinality(features[i])
        similarity == [p \in ids \X ids |->
            (1000 * dot_product(p[1], p[2])) \div ISqrt(norms2(p[1]) * norms2(p[2]))]
    IN  fill_diagonal(similarity, 0)

\* The compiled extension "similarity" is not among the sources: its import
\* fails, CYTHON_AVAILABLE stays False and the matrix comes from the numpy
\* implementation.
_calculate_similarity_matrix(features) == _calculate_cosine_similarity_python(features)

\* The mutant marks the engine loaded after a load that found no product.
Mutant_load_data_loaded_when_empty(self, rows, read_ok) ==
    IF ~read_ok
    THEN [self EXCEPT !.products_df = Some({}), !.is_loaded = FALSE]
    ELSE IF rows # {}
         THEN LET features == _create_feature_matrix(rows)
              IN  [products_df |-> Some(rows), feature_matrix |-> Some(features),
                   similarity_matrix |-> Some(_calculate_similarity_matrix(features)),
                   is_loaded |-> TRUE]
         ELSE [self EXCEPT !.products_df = Some({}), !.is_loaded = TRUE]

\* The mutant's handler of a failed read leaves products_df as it was.
Mutant_load_data_keeps_frame(self, rows, read_ok) ==
    IF ~read_ok
    THEN [self EXCEPT !.is_loaded = FALSE]
    ELSE IF rows # {}
         THEN LET features == _create_feature_matrix(rows)
              IN  [products_df |-> Some(rows), feature_matrix |-> Some(features),
                   similarity_matrix |-> Some(_calculate_similarity_matrix(features)),
                   is_loaded |-> TRUE]
         ELSE [self EXCEPT !.products_df = Some({})]

\* The mutant computes the similarity matrix before it replaces the feature
\* matrix: from the features of the load before, where those cover the
\* products of the new frame.
Mutant_load_data_stale_features(self, rows, read_ok) ==
    IF ~read_ok
    THEN [self EXCEPT !.products_df = Some({}), !.is_loaded = FALSE]
    ELSE IF rows # {}
         THEN LET features == _create_feature_matrix(rows)
                  ids == {r.id : r \in rows}
                  basis == IF self.feature_matrix # None
                              /\ ids \subseteq DOMAIN Val(self.feature_matrix)
                           THEN [id \in ids |-> Val(self.feature_matrix)[id]]
                           ELSE features
              IN  [products_df |-> Some(rows), feature_matrix |-> Some(features),
                   similarity_matrix |-> Some(_calculate_similarity_matrix(basis)),
                   is_loaded |-> TRUE]
         ELSE [self EXCEPT !.products_df = Some({})]

\* load_data: rows are the rows the catalog read returns, read_ok is FALSE when
\* the read raises.  The engine after the call.
load_data(self, rows, read_ok) ==
    IF ~read_ok
    THEN [self EXCEPT !.products_df = Some({}), !.is_loaded = FALSE]
    ELSE IF rows # {}
         THEN LET features == _create_feature_matrix(rows)
              IN  [products_df |-> Some(rows), feature_matrix |-> Some(features),
                   similarity_matrix |-> Some(_calculate_similarity_matrix(features)),
                   is_loaded |-> TRUE]
         ELSE [self EXCEPT !.products_df = Some({})]

\* request.session.session_key of a request without a session.
NoSessionKey == "None"

\* _format_recommendation: the dict of one recommendation (name, detail_url and
\* image_url are functions of the row alone and are left out).
_format_recommendation(product_row, similarity_score, final_score, reason) ==
    [product_id |-> product_row.id, price |-> product_row.price,
     category |-> product_row.category, similarity_score |-> similarity_score,
     final_score |-> final_score, reason |-> reason]

\* DataFrame.sample(n=k): every sequence of k distinct rows of the frame.
Sample(df, k) ==
    {s \in [1..k -> df] : \A i, j \in 1..k : i # j => s[i] # s[j]}

\* recommendations[:n]
Slice(s, n) ==
    IF n >= 0 THEN SubSeq(s, 1, Minimum(n, Len(s)))
    ELSE SubSeq(s, 1, Maximum(0, Len(s) + n))

\* What a call can do: return a list, or raise.
Returned(recs) == [status |-> "ok", recs |-> recs]
Raised(exception) == [status |-> exception, recs |-> <<>>]

\* The mutant never finds a product to fall back on.
Mutant_get_fallback_recommendations_empty(df, num_recommendations) ==
    {Returned(<<>>)}

\* _get_fallback_recommendations: the outcomes of the call.  The sample is
\* drawn from the whole frame; DataFrame.sample raises ValueError for n < 0.
_get_fallback_recommendations(df, num_recommendations) ==
    IF df = {} THEN {Returned(<<>>)}
    ELSE LET k == Minimum(num_recommendations, Cardinality(df))
         IN  IF k < 0 THEN {Raised("ValueError")}
             ELSE {Returned([i \in 1..k |->
                        _format_recommendation(sample_products[i],
                            FallbackSimilarityScore, FallbackFinalScore,
                            <<"Popular", Lower(sample_products[i].category), "product">>)])
                   : sample_products \in Sample(df, k)}

\* _apply_user_preferences: UserInteraction has the fields user, product,
\* interaction_type and timestamp, so UserInteraction.objects.filter(
\* session_key=...) raises FieldError; the handler returns the similarities
\* it was given.
_apply_user_preferences(session_key, similarities) == similarities

\* _get_recommendation_reason: without a session key the first return; with
\* one, the filter on session_key raises FieldError and the handler returns
\* the same text.
_get_recommendation_reason(session_key, product_info, score) ==
    <<"Similar", Lower(product_info.category), "product">>

\* The mutant formats the fallback of a request with a session key as
\* sample_and_format does, with similarity_score and final_score 0.5.
Mutant_get_personalized_fallback_recommendations(df, session_key, num_recommendations, seen_products) ==
    IF session_key = NoSessionKey
    THEN _get_fallback_recommendations(df, num_recommendations)
    ELSE {IF fallback.status = "ok"
          THEN Returned([i \in 1..Len(fallback.recs) |->
                   [fallback.recs[i] EXCEPT !.similarity_score = 500, !.final_score = 500]])
          ELSE fallback
          : fallback \in _get_fallback_recommendations(df, num_recommendations)}

\* _get_personalized_fallback_recommendations: without a session key the plain
\* fallback; with one, the filter on session_key raises FieldError and the
\* handler calls the plain fallback with the same count.  seen_products is
\* not passed on in either case.
_get_personalized_fallback_recommendations(df, session_key, num_recommendations, seen_products) ==
    IF session_key = NoSessionKey
    THEN _get_fallback_recommendations(df, num_recommendations)
    ELSE _get_fallback_recommendations(df, num_recommendations)

\* The mutant leaves out the reversal: np.argsort(similarities).
Mutant_argsort_ascending(similarities) ==
    LET ids == DOMAIN similarities
        k == Cardinality(ids)
    IN  {s \in [1..k -> ids] :
            /\ \A i, j \in 1..k : i # j => s[i] # s[j]
            /\ \A i \in 1..(k - 1) : similarities[s[i]] <= similarities[s[i + 1]]}

\* np.argsort(similarities)[::-1]: the row ids in an order of non-increasing
\* score; the order among equal scores is the sort's choice.
argsort_descending(similarities) ==
    LET ids == DOMAIN similarities
        k == Cardinality(ids)
    IN  {s \in [1..k -> ids] :
            /\ \A i, j \in 1..k : i # j => s[i] # s[j]
            /\ \A i \in 1..(k - 1) : similarities[s[i]] >= similarities[s[i + 1]]}

\* The loop of get_recommendations over similar_indices, from position i on.
RECURSIVE RankLoop(_, _, _, _, _, _, _, _)
RankLoop(df, similar_indices, i, similarities, session_key, num_recommendations, recommendations, seen_products) ==
    IF i > Len(similar_indices) \/ Len(recommendations) >= num_recommendations
    THEN [recommendations |-> recommendations, seen_products |-> seen_products]
    ELSE LET product_info == CHOOSE r \in df : r.id = similar_indices[i]
             similarity_score == similarities[similar_indices[i]]
         IN  IF product_info.id \in seen_products \/ similarity_score <= 0
             THEN RankLoop(df, similar_indices, i + 1, similarities, session_key,
                           num_recommendations, recommendations, seen_products)
             ELSE RankLoop(df, similar_indices, i + 1, similarities, session_key,
                           num_recommendations,
                           Append(recommendations,
                               _format_recommendation(product_info, similarity_score,
                                   similarity_score,
                                   _get_recommendation_reason(session_key, product_info,
                                                              similarity_score))),
                           seen_products \cup {product_info.id})

\* get_recommendations on an engine whose snapshot is in place (after the
\* lazy load): the outcomes of the call.
RecommendFromSnapshot(self, product_id, session_key, num_recommendations) ==
    IF self.products_df = None THEN {Raised("AttributeError")}
    ELSE
    LET df == Val(self.products_df) IN
    IF df = {} \/ self.similarity_matrix = None THEN {Returned(<<>>)}
    ELSE IF product_id \notin {r.id : r \in df}
    THEN _get_fallback_recommendations(df, num_recommendations)
    ELSE
    LET matrix == Val(self.similarity_matrix)
        row == [id \in {r.id : r \in df} |-> matrix[<<product_id, id>>]]
        similarities == IF session_key # NoSessionKey
                        THEN _apply_user_preferences(session_key, row)
                        ELSE row
    IN  UNION {
          LET loop == RankLoop(df, similar_indices, 1, similarities, session_key,
                               num_recommendations, <<>>, {product_id})
              recommendations == loop.recommendations
          IN  IF Len(recommendations) < num_recommendations
              THEN {IF fallback.status = "ok"
                    THEN Returned(Slice(recommendations \o fallback.recs,
                                        num_recommendations))
                    ELSE fallback
                    : fallback \in _get_personalized_fallback_recommendations(
                          df, session_key,
                          num_recommendations - Len(recommendations),
                          loop.seen_products)}
              ELSE {Returned(Slice(recommendations, num_recommendations))}
          : similar_indices \in argsort_descending(similarities)}

\* The lazy load at the head of get_recommendations and get_stats.
EnsureLoaded(self, rows, read_ok) ==
    IF ~self.is_loaded THEN load_data(self, rows, read_ok) ELSE self

\* get_stats on an engine after the lazy load.
StatsFromSnapshot(self) ==
    IF self.products_df = None THEN Raised("AttributeError")
    ELSE LET df == Val(self.products_df)
         IN  [status |-> "ok",
              stats |-> [total_products |-> IF df # {} THEN Cardinality(df) ELSE 0,
                         unique_categories |->
                             IF df # {} THEN Cardinality({r.category : r \in df}) ELSE 0,
                         is_loaded |-> self.is_loaded]]

\* refresh_data: the engine after the call.
refresh_data(self, rows, read_ok) ==
    load_data([self EXCEPT !.is_loaded = FALSE], rows, read_ok)

\* ------------------------------------------------------- calls and responses

NoStats == [total_products |-> 0, unique_categories |-> 0, is_loaded |-> FALSE]

\* The record of one engine call: found_empty says that the call found the
\* empty frame of an earlier load in the engine, found_loaded that it found
\* is_loaded set, loaded that the call ran load_data, read_failed that the
\* catalog read of that load raised.
Call(op, product_id, session_key, num, found_empty, found_loaded, loaded, read_failed, status, recs, stats) ==
    [op |-> op, product_id |-> product_id, session_key |-> session_key, num |-> num,
     found_empty |-> found_empty, found_loaded |-> found_loaded, loaded |-> loaded,
     read_failed |-> read_failed, status |-> status, recs |-> recs, stats |-> stats]

NoCall ==
    Call("none", 0, NoSessionKey, 0, FALSE, FALSE, FALSE, FALSE, "ok", <<>>, NoStats)

Response(view, status, count) == [view |-> view, status |-> status, count |-> count]

NoResponse == Response("none", 0, 0)

\* get_recommendations: the engine after the call and the call's record, for
\* every outcome of the sort and of the sampling.
get_recommendations(self, product_id, session_key, num_recommendations, rows, read_ok) ==
    LET after == EnsureLoaded(self, rows, read_ok)
    IN  {[self |-> after,
          call |-> Call("get_recommendations", product_id, session_key,
                        num_recommendations, self.products_df = Some({}),
                        self.is_loaded, ~self.is_loaded, ~self.is_loaded /\ ~read_ok,
                        out.status, out.recs, NoStats)]
         : out \in RecommendFromSnapshot(after, product_id, session_key,
                                         num_recommendations)}

\* get_stats: the engine after the call and the call's record.
get_stats(self, rows, read_ok) ==
    LET after == EnsureLoaded(self, rows, read_ok)
        out == StatsFromSnapshot(after)
    IN  [self |-> after,
         call |-> Call("get_stats", 0, NoSessionKey, 0, self.products_df = Some({}),
                       self.is_loaded, ~self.is_loaded, ~self.is_loaded /\ ~read_ok,
                       out.status, <<>>,
                       IF out.status = "ok" THEN out.stats ELSE NoStats)]

\* update_with_feedback: UserInteraction has no field session_key, so
\* UserInteraction.objects.create(session_key=...) raises TypeError before a
\* row is saved; the handler prints the error.  The table after the call.
update_with_feedback(table, session_key, product_id, feedback) == table

\* ------------------------------------------------- calls on several threads

\* The largest number of engine calls the threads of the server make.
MaxCalls == 3

\* The frame of one engine call on a thread.  pc is the statement the thread
\* runs next, lazy what the check of is_loaded at the head of
\* get_recommendations read, builds the number of similarity matrices the
\* call has written, load_failed that its load ran the except branch, df the
\* frame the lookup of product_index read, mixed that the matrix the call read
\* next was not the matrix of that frame.
NewCall(op) ==
    [op |-> op, pc |-> IF op = "refresh_data" THEN "invalidate" ELSE "check",
     lazy |-> "unchecked", builds |-> 0, load_failed |-> FALSE, df |-> None,
     mixed |-> FALSE, status |-> "running"]

\* if not self.is_loaded: self.load_data()
LazyLoad(frame, loaded) ==
    [frame EXCEPT !.lazy = IF loaded THEN "loaded" ELSE "unloaded",
                  !.pc = IF ~loaded THEN "read" ELSE "guard"]

\* load_data returns: refresh_data is over, get_recommendations goes on.
AfterLoad(frame) ==
    IF frame.op = "refresh_data"
    THEN [frame EXCEPT !.pc = "done", !.status = "ok"]
    ELSE [frame EXCEPT !.pc = "guard"]

\* The call ends with the given status.
Finish(frame, status) == [frame EXCEPT !.pc = "done", !.status = status, !.df = None]

\* The calls in flight after one of them has taken a step.
Replace(bag, frame, after) == (bag (-) SetToBag({frame})) (+) SetToBag({after})

\* The frames of the calls, each as often as it occurs.
RECURSIVE SumOver(_, _, _)
SumOver(bag, frames, field) ==
    IF frames = {} THEN 0
    ELSE LET f == CHOOSE x \in frames : TRUE
         IN  CopiesIn(f, bag) * field[f] + SumOver(bag, frames \ {f}, field)

\* -------------------------------------------------------------- shop tables

\* The largest quantity of a cart line.
MaxQuantity == 2
\* The largest number of orders.
MaxOrders == 2

UserNames == {"u1", "u2"}

\* request.user of a request without a login.
Anonymous == "anonymous"

Interaction(user, product, interaction_type) ==
    [user |-> user, product |-> product, interaction_type |-> interaction_type]

CartItem(user, product, quantity) ==
    [user |-> user, product |-> product, quantity |-> quantity]

OrderItem(product, quantity, price) ==
    [product |-> product, quantity |-> quantity, price |-> price]

Order(order_number, user, items, total_amount, status) ==
    [order_number |-> order_number, user |-> user, items |-> items,
     total_amount |-> total_amount, status |-> status]

\* sum(item.get_total_price() for item in cart_items)
RECURSIVE total_price(_)
total_price(items) ==
    IF items = {} THEN 0
    ELSE LET item == CHOOSE x \in items : TRUE
         IN  item.quantity * ProductPrice(item.product) + total_price(items \ {item})

\* CartItem.objects.filter(user=user)
CartOf(table, user) == {item \in table : item.user = user}

\* The mutant creates the new interaction and leaves the opposite one.
Mutant_ProductInteractionView_toggle(table, user, product, interaction_type) ==
    LET existing == Interaction(user, product, interaction_type)
    IN  IF existing \in table
        THEN [table |-> table \ {existing}, action |-> "removed", opposite_deleted |-> 0]
        ELSE [table |-> table \cup {existing}, action |-> "added", opposite_deleted |-> 0]

\* ProductInteractionView.post, from the lookup of the existing interaction to
\* the creation of the new one: the table after, the action of the response
\* and the number of rows the delete of the opposite interaction removed.
ProductInteractionView_toggle(table, user, product, interaction_type) ==
    LET existing == Interaction(user, product, interaction_type)
        opposite_type == IF interaction_type = "like" THEN "dislike" ELSE "like"
        opposite == Interaction(user, product, opposite_type)
    IN  IF existing \in table
        THEN [table |-> table \ {existing}, action |-> "removed", opposite_deleted |-> 0]
        ELSE [table |-> (table \ {opposite}) \cup {existing}, action |-> "added",
              opposite_deleted |-> IF opposite \in table THEN 1 ELSE 0]

\* The mutant has no transaction around the order: the order row created
\* before the failing purchase interaction stays.
Mutant_checkout_transaction(user, order_number, interaction_table, cart_table, order_table) ==
    LET cart == CartOf(cart_table, user)
        purchases == {Interaction(user, item.product, "purchase") : item \in cart}
        order == Order(order_number, user,
                       {OrderItem(item.product, item.quantity, ProductPrice(item.product))
                        : item \in cart},
                       total_price(cart), "processing")
    IN  IF purchases \cap interaction_table # {}
        THEN [committed |-> FALSE, interactions |-> interaction_table,
              cart_items |-> cart_table,
              orders |-> order_table \cup {[order EXCEPT !.items = {}, !.status = "pending"]}]
        ELSE [committed |-> TRUE,
              interactions |-> interaction_table \cup purchases,
              cart_items |-> cart_table \ cart,
              orders |-> order_table \cup {order}]

\* The transaction of CheckoutView.post for a non-empty cart: the order with
\* its items, a purchase interaction for every cart line, the cart deleted,
\* the order set to processing.  UserInteraction is unique on (user, product,
\* interaction_type): the create of a purchase row that is there already
\* raises IntegrityError, the transaction is rolled back and the handler
\* shows the form again.
checkout_transaction(user, order_number, interaction_table, cart_table, order_table) ==
    LET cart == CartOf(cart_table, user)
        purchases == {Interaction(user, item.product, "purchase") : item \in cart}
    IN  IF purchases \cap interaction_table # {}
        THEN [committed |-> FALSE, interactions |-> interaction_table,
              cart_items |-> cart_table, orders |-> order_table]
        ELSE [committed |-> TRUE,
              interactions |-> interaction_table \cup purchases,
              cart_items |-> cart_table \ cart,
              orders |-> order_table \cup
                  {Order(order_number, user,
                         {OrderItem(item.product, item.quantity, ProductPrice(item.product))
                          : item \in cart},
                         total_price(cart), "processing")}]

\* ------------------------------------------------------------- session cart

\* str(product_id) and the int() of the id lookup, on ids >= 0: a string of
\* decimal digits is the sequence of its digits.
Digits == <<"0", "1", "2", "3", "4", "5", "6", "7", "8", "9">>

RECURSIVE str(_)
str(n) == IF n < 10 THEN <<Digits[n + 1]>> ELSE Append(str(n \div 10), Digits[(n % 10) + 1])

RECURSIVE int(_)
int(s) ==
    LET digit(c) == (CHOOSE i \in 1..10 : Digits[i] = c) - 1
    IN  IF Len(s) = 1 THEN digit(s[1])
        ELSE 10 * int(SubSeq(s, 1, Len(s) - 1)) + digit(s[Len(s)])

\* request.session.get('cart', {}) of a session without a cart.
EmptyCart == [key \in {} |-> 0]

\* cart[key] = value and del cart[key]
SetItem(cart, key, value) ==
    [k \in DOMAIN cart \cup {key} |-> IF k = key THEN value ELSE cart[k]]
DelItem(cart, key) == [k \in DOMAIN cart \ {key} |-> cart[k]]

\* sum(cart.values())
RECURSIVE sum_values(_)
sum_values(cart) ==
    IF DOMAIN cart = {} THEN 0
    ELSE LET key == CHOOSE k \in DOMAIN cart : TRUE
         IN  cart[key] + sum_values(DelItem(cart, key))

\* The mutant stores the given quantity over the one in the cart.
Mutant_add_to_cart(cart, product_ids, product_id, quantity) ==
    IF product_id \notin product_ids THEN [cart |-> cart, result |-> FALSE]
    ELSE [cart |-> SetItem(cart, str(product_id), quantity), result |-> TRUE]

\* cart_utils.add_to_cart: product_ids are the ids of the Product table.
add_to_cart(cart, product_ids, product_id, quantity) ==
    IF product_id \notin product_ids THEN [cart |-> cart, result |-> FALSE]
    ELSE LET product_id_str == str(product_id)
         IN  [cart |-> IF product_id_str \in DOMAIN cart
                       THEN SetItem(cart, product_id_str, cart[product_id_str] + quantity)
                       ELSE SetItem(cart, product_id_str, quantity),
              result |-> TRUE]

\* cart_utils.remove_from_cart
remove_from_cart(cart, product_id) ==
    LET product_id_str == str(product_id)
    IN  IF product_id_str \in DOMAIN cart
        THEN [cart |-> DelItem(cart, product_id_str), result |-> TRUE]
        ELSE [cart |-> cart, result |-> FALSE]

\* The mutant removes the product for a negative quantity only, and stores a
\* quantity of 0.
Mutant_update_cart_quantity(cart, product_ids, product_id, quantity) ==
    IF product_id \notin product_ids THEN [cart |-> cart, result |-> FALSE]
    ELSE LET product_id_str == str(product_id)
         IN  [cart |-> IF quantity < 0 THEN DelItem(cart, product_id_str)
                       ELSE SetItem(cart, product_id_str, quantity),
              result |-> TRUE]

\* cart_utils.update_cart_quantity
update_cart_quantity(cart, product_ids, product_id, quantity) ==
    IF product_id \notin product_ids THEN [cart |-> cart, result |-> FALSE]
    ELSE LET product_id_str == str(product_id)
         IN  [cart |-> IF quantity <= 0 THEN DelItem(cart, product_id_str)
                       ELSE SetItem(cart, product_id_str, quantity),
              result |-> TRUE]

\* cart_utils.get_cart_items: the cart without the products that are no
\* longer in the table, the total and the item count.
get_cart_items(cart, product_ids) ==
    LET valid == {k \in DOMAIN cart : int(k) \in product_ids}
        kept == [k \in valid |-> cart[k]]
    IN  [cart |-> kept,
         cart_total |-> total_price({[product |-> int(k), quantity |-> cart[k]] : k \in valid}),
         item_count |-> sum_values(kept)]

\* cart_utils.clear_cart
clear_cart(cart) == EmptyCart

\* ------------------------------------------------------------------- inputs

\* Product ids a request can name: 0 is the id of no product.
QueryIds == 0..MaxProducts

SessionKeys == {NoSessionKey, "s1"}

\* The num_recommendations query parameter: absent, not a number, or a number.
QueryParams ==
    {[given |-> FALSE, numeric |-> TRUE, value |-> 0],
     [given |-> TRUE, numeric |-> FALSE, value |-> 0]}
    \cup {[given |-> TRUE, numeric |-> TRUE, value |-> v] : v \in {-1, 1, 2, 10, 21}}

\* The quantity form field: absent, not a number, or a number.
QuantityParams ==
    {[given |-> FALSE, numeric |-> TRUE, value |-> 0],
     [given |-> TRUE, numeric |-> FALSE, value |-> 0]}
    \cup {[given |-> TRUE, numeric |-> TRUE, value |-> v] : v \in 0..MaxQuantity}

\* The quantities a caller of cart_utils passes.
Quantities == -1..MaxQuantity

\* The rows a read of the Product table returns.
CatalogRows == {ProductRow(id) : id \in catalog}

SetEngine(self) ==
    /\ products_df' = self.products_df
    /\ feature_matrix' = self.feature_matrix
    /\ similarity_matrix' = self.similarity_matrix
    /\ is_loaded' = self.is_loaded

\* ---------------------------------------------------------------- responses

\* The response of a view of the shop: user is request.user, accepted says that
\* the request passed the checks of the view, action what the view did.
Reply(view, status, user, accepted, action, count) ==
    [view |-> view, status |-> status, count |-> count, user |-> user,
     accepted |-> accepted, action |-> action]

\* The record of one cart_utils call.
CartCall(op, product_id, quantity, result, cart_total, count) ==
    [op |-> op, product_id |-> product_id, quantity |-> quantity, result |-> result,
     cart_total |-> cart_total, count |-> count]

\* ------------------------------------------------------------ initial states

\* The engine object as the module creates it, no request handled yet.
FreshEngine ==
    /\ products_df = None
    /\ feature_matrix = None
    /\ similarity_matrix = None
    /\ is_loaded = FALSE
    /\ ret = NoCall
    /\ http = NoResponse
    /\ calls = EmptyBag
    /\ feedback_log = <<>>

\* The tables of a new database and a new session.
EmptyTables ==
    /\ interactions = {}
    /\ cart_items = {}
    /\ orders = {}
    /\ session_cart = EmptyCart
    /\ requests = {}
    /\ product_price = [id \in ProductIds |-> ProductPrice(id)]

Init ==
    /\ catalog \in SUBSET ProductIds
    /\ users = {}
    /\ FreshEngine
    /\ EmptyTables

\* ------------------------------------------------------------------ actions

\* The worker handles one request or call at a time: no call has returned a
\* result that its caller has yet to take.
Idle == ret = NoCall /\ http = NoResponse

\* The administrator adds a product (ProductAdmin, create_sample_products).
AddProduct ==
    \E id \in ProductIds \ catalog :
        /\ Idle
        /\ catalog' = catalog \cup {id}
        /\ ret' = NoCall
        /\ http' = NoResponse
        /\ UNCHANGED <<engineVars, storeVars>>

\* The administrator deletes a product: the rows of UserInteraction, CartItem
\* and OrderItem that refer to it go with it (on_delete=CASCADE).
DeleteProduct ==
    \E id \in catalog :
        /\ Idle
        /\ catalog' = catalog \ {id}
        /\ interactions' = {row \in interactions : row.product # id}
        /\ cart_items' = {item \in cart_items : item.product # id}
        /\ orders' = {[order EXCEPT !.items = {item \in order.items : item.product # id}]
                      : order \in orders}
        /\ ret' = NoCall
        /\ http' = NoResponse
        /\ UNCHANGED <<engineVars, calls, feedback_log, users, session_cart,
          requests, product_price>>

\* recommendations/views.py get_recommendations_api, for requests that name
\* one of the given products, carry one of the given num_recommendations
\* parameters, and whose catalog read goes as read_oks says.
RecommendationsRequest(product_ids, params, read_oks) ==
    \E product_id \in product_ids, param \in params,
       session_key \in SessionKeys, read_ok \in read_oks :
        /\ Idle
        /\ UNCHANGED storeVars
        /\ IF ~param.numeric
           THEN \* int() raises ValueError, caught by the handler
                /\ http' = Response("get_recommendations_api", 500, 0)
                /\ ret' = NoCall
                /\ UNCHANGED <<catalog, engineVars>>
           ELSE LET num_recommendations ==
                        IF param.given THEN param.value ELSE DefaultNumRecommendations
                IN  \E result \in get_recommendations(Engine, product_id, session_key,
                                                      num_recommendations, CatalogRows,
                                                      read_ok) :
                       /\ SetEngine(result.self)
                       /\ ret' = result.call
                       /\ http' = IF result.call.status = "ok"
                                  THEN Response("get_recommendations_api", 200,
                                                Len(result.call.recs))
                                  ELSE Response("get_recommendations_api", 500, 0)
                       /\ UNCHANGED catalog

\* recommendations/views.py get_recommendations_api.
get_recommendations_api == RecommendationsRequest(QueryIds, QueryParams, BOOLEAN)

\* recommendations/views.py engine_stats_api.
engine_stats_api ==
    \E read_ok \in BOOLEAN :
        LET result == get_stats(Engine, CatalogRows, read_ok)
        IN  /\ Idle
            /\ SetEngine(result.self)
            /\ ret' = result.call
            /\ http' = IF result.call.status = "ok"
                       THEN Response("engine_stats_api", 200, 0)
                       ELSE Response("engine_stats_api", 500, 0)
            /\ UNCHANGED <<catalog, storeVars>>

\* products/views.py RecommendationAPIView.get, behind login_required.
RecommendationAPIView_get ==
    \E product_id \in QueryIds, param \in QueryParams,
       logged_in \in BOOLEAN, read_ok \in BOOLEAN :
        /\ Idle
        /\ UNCHANGED <<catalog, engineVars, storeVars>>
        /\ IF ~logged_in
           THEN /\ http' = Response("RecommendationAPIView", 302, 0)
                /\ ret' = NoCall
           ELSE IF ~param.numeric
           THEN \* except ValueError
                /\ http' = Response("RecommendationAPIView", 400, 0)
                /\ ret' = NoCall
           ELSE IF ~read_ok \/ product_id \notin catalog
           THEN \* get_object_or_404 raises; except Exception
                /\ http' = Response("RecommendationAPIView", 500, 0)
                /\ ret' = NoCall
           ELSE LET requested == IF param.given THEN param.value
                                 ELSE DefaultNumRecommendationsView
                    num_recommendations ==
                        Minimum(Maximum(requested, MinNumRecommendations),
                                MaxNumRecommendations)
                IN  \* get_recommendations has no parameter user_id: TypeError
                    \* before the body runs; except Exception
                    /\ ret' = Call("get_recommendations(user_id)", product_id,
                                   NoSessionKey, num_recommendations,
                                   products_df = Some({}), is_loaded, FALSE, FALSE,
                                   "TypeError", <<>>, NoStats)
                    /\ http' = Response("RecommendationAPIView", 500, 0)

\* refresh_data, called on the engine directly (test_interactions.py).
RefreshData ==
    \E read_ok \in BOOLEAN :
        /\ Idle
        /\ SetEngine(refresh_data(Engine, CatalogRows, read_ok))
        /\ ret' = Call("refresh_data", 0, NoSessionKey, 0, products_df = Some({}),
                       is_loaded, TRUE, ~read_ok, "ok", <<>>, NoStats)
        /\ http' = NoResponse
        /\ UNCHANGED <<catalog, storeVars>>

\* The view returns its response, the call its result: the worker is free for
\* the next request.
Return ==
    /\ ~Idle
    /\ ret' = NoCall
    /\ http' = NoResponse
    /\ UNCHANGED <<catalog, engineVars, storeVars>>

Next ==
    \/ AddProduct
    \/ DeleteProduct
    \/ get_recommendations_api
    \/ engine_stats_api
    \/ RecommendationAPIView_get
    \/ RefreshData
    \/ Return

Spec == Init /\ [][Next]_vars

\* ---------------------------------------- engine calls on several threads

\* What a step of an engine call leaves alone, the engine and the Product
\* table apart.
outsideCalls == <<ret, http, feedback_log, users, interactions, cart_items, orders, session_cart,
  requests, product_price>>

\* A thread of the server enters get_recommendations.
CallGetRecommendations ==
    /\ BagCardinality(calls) < MaxCalls
    /\ calls' = calls (+) SetToBag({NewCall("get_recommendations")})
    /\ UNCHANGED <<catalog, engineVars, outsideCalls>>

\* A thread enters refresh_data.
CallRefreshData ==
    /\ BagCardinality(calls) < MaxCalls
    /\ calls' = calls (+) SetToBag({NewCall("refresh_data")})
    /\ UNCHANGED <<catalog, engineVars, outsideCalls>>

\* refresh_data: self.is_loaded = False
RefreshInvalidate ==
    \E frame \in BagToSet(calls) :
        /\ frame.pc = "invalidate"
        /\ is_loaded' = FALSE
        /\ calls' = Replace(calls, frame, [frame EXCEPT !.pc = "read"])
        /\ UNCHANGED <<catalog, products_df, feature_matrix, similarity_matrix, outsideCalls>>

\* get_recommendations: if not self.is_loaded
LazyCheck ==
    \E frame \in BagToSet(calls) :
        /\ frame.pc = "check"
        /\ calls' = Replace(calls, frame, LazyLoad(frame, is_loaded))
        /\ UNCHANGED <<catalog, engineVars, outsideCalls>>

\* load_data: the read of the Product table and the assignment of
\* self.products_df, then the test of the frame just assigned.
LoadRead ==
    \E frame \in BagToSet(calls), read_ok \in BOOLEAN :
        /\ frame.pc = "read"
        /\ IF ~read_ok
           THEN /\ calls' = Replace(calls, frame, [frame EXCEPT !.pc = "except"])
                /\ UNCHANGED products_df
           ELSE /\ products_df' = Some(CatalogRows)
                /\ calls' = Replace(calls, frame,
                                    IF CatalogRows # {}
                                    THEN [frame EXCEPT !.pc = "features"]
                                    ELSE AfterLoad(frame))
        /\ UNCHANGED <<catalog, feature_matrix, similarity_matrix, is_loaded, outsideCalls>>

\* load_data: self._create_feature_matrix(), on the frame the engine holds now.
LoadFeatures ==
    \E frame \in BagToSet(calls) :
        /\ frame.pc = "features"
        /\ feature_matrix' = IF Val(products_df) = {} THEN feature_matrix
                             ELSE Some(_create_feature_matrix(Val(products_df)))
        /\ calls' = Replace(calls, frame, [frame EXCEPT !.pc = "similarity"])
        /\ UNCHANGED <<catalog, products_df, similarity_matrix, is_loaded, outsideCalls>>

\* load_data: self._calculate_similarity_matrix(), on the feature matrix the
\* engine holds now.
LoadSimilarity ==
    \E frame \in BagToSet(calls) :
        /\ frame.pc = "similarity"
        /\ IF feature_matrix = None
           THEN /\ UNCHANGED similarity_matrix
                /\ calls' = Replace(calls, frame, [frame EXCEPT !.pc = "set_loaded"])
           ELSE /\ similarity_matrix' = Some(_calculate_similarity_matrix(Val(feature_matrix)))
                /\ calls' = Replace(calls, frame,
                                    [frame EXCEPT !.pc = "set_loaded",
                                                  !.builds = frame.builds + 1])
        /\ UNCHANGED <<catalog, products_df, feature_matrix, is_loaded, outsideCalls>>

\* load_data: self.is_loaded = True
LoadSetLoaded ==
    \E frame \in BagToSet(calls) :
        /\ frame.pc = "set_loaded"
        /\ is_loaded' = TRUE
        /\ calls' = Replace(calls, frame, AfterLoad(frame))
        /\ UNCHANGED <<catalog, products_df, feature_matrix, similarity_matrix, outsideCalls>>

\* load_data: the except branch.
LoadExcept ==
    \E frame \in BagToSet(calls) :
        /\ frame.pc = "except"
        /\ products_df' = Some({})
        /\ is_loaded' = FALSE
        /\ calls' = Replace(calls, frame, AfterLoad([frame EXCEPT !.load_failed = TRUE]))
        /\ UNCHANGED <<catalog, feature_matrix, similarity_matrix, outsideCalls>>

\* get_recommendations: if self.products_df.empty or self.similarity_matrix
\* is None: return []
GuardEmpty ==
    \E frame \in BagToSet(calls) :
        /\ frame.pc = "guard"
        /\ calls' = Replace(calls, frame,
                            IF Val(products_df) = {} \/ similarity_matrix = None
                            THEN Finish(frame, "ok")
                            ELSE [frame EXCEPT !.pc = "index"])
        /\ UNCHANGED <<catalog, engineVars, outsideCalls>>

\* get_recommendations: the lookup of product_index in self.products_df.  The
\* frame of a load that found no product has no column 'id' (KeyError); a
\* product_id that is not in the frame leads to the fallback.  The product_id
\* of the call plays no part before this step and is drawn here.
LookupIndex ==
    \E frame \in BagToSet(calls), product_id \in QueryIds :
        /\ frame.pc = "index"
        /\ calls' = Replace(calls, frame,
                            IF Val(products_df) = {} THEN Finish(frame, "KeyError")
                            ELSE IF product_id \notin {r.id : r \in Val(products_df)}
                            THEN Finish(frame, "ok")
                            ELSE [frame EXCEPT !.pc = "row", !.df = products_df])
        /\ UNCHANGED <<catalog, engineVars, outsideCalls>>

\* get_recommendations: similarities = self.similarity_matrix[product_index],
\* then the ranking, which writes no field of the engine.
ReadSimilarities ==
    \E frame \in BagToSet(calls) :
        /\ frame.pc = "row"
        /\ calls' = Replace(calls, frame,
                            Finish([frame EXCEPT !.mixed =
                                        similarity_matrix # Some(_calculate_similarity_matrix(
                                            _create_feature_matrix(Val(frame.df))))],
                                   "ok"))
        /\ UNCHANGED <<catalog, engineVars, outsideCalls>>

NextThreads ==
    \/ AddProduct
    \/ CallGetRecommendations
    \/ CallRefreshData
    \/ RefreshInvalidate
    \/ LazyCheck
    \/ LoadRead
    \/ LoadFeatures
    \/ LoadSimilarity
    \/ LoadSetLoaded
    \/ LoadExcept
    \/ GuardEmpty
    \/ LookupIndex
    \/ ReadSimilarities

SpecThreads == Init /\ [][NextThreads]_vars

\* -------------------------------------------------- feedback and preferences

\* The largest number of update_with_feedback calls.
MaxFeedback == 2

\* The products of the catalogs with three Electronics products.
PreferenceIds == 1..(MaxProducts + 1)

\* One argument list of update_with_feedback.
Feedback(session_key, product_id, feedback) ==
    [session_key |-> session_key, product_id |-> product_id, feedback |-> feedback]

InitPreferences ==
    /\ catalog \in {ids \in SUBSET PreferenceIds : Cardinality(ids) >= MaxProducts}
    /\ users = {}
    /\ FreshEngine
    /\ EmptyTables

\* update_with_feedback, called on the engine directly.
UpdateWithFeedback ==
    \E session_key \in SessionKeys \ {NoSessionKey}, product_id \in PreferenceIds,
       feedback \in {"like", "dislike"} :
        /\ Idle
        /\ Len(feedback_log) < MaxFeedback
        /\ interactions' = update_with_feedback(interactions, session_key, product_id,
                                                feedback)
        /\ feedback_log' = Append(feedback_log, Feedback(session_key, product_id, feedback))
        /\ ret' = Call("update_with_feedback", product_id, session_key, 0,
                       products_df = Some({}), is_loaded, FALSE, FALSE, "ok", <<>>, NoStats)
        /\ http' = NoResponse
        /\ UNCHANGED <<catalog, engineVars, calls, users, cart_items, orders, session_cart,
          requests, product_price>>

\* get_recommendations_api without a num_recommendations parameter, for a
\* product id of the larger catalogs.
get_recommendations_api_default ==
    RecommendationsRequest(PreferenceIds,
                           {[given |-> FALSE, numeric |-> TRUE, value |-> 0]}, {TRUE})

NextPreferences ==
    \/ UpdateWithFeedback
    \/ get_recommendations_api_default
    \/ Return

SpecPreferences == InitPreferences /\ [][NextPreferences]_vars

\* ------------------------------------------------------- views of the shop

\* What a view of the shop leaves alone, the tables apart.
outsideShop ==
    <<catalog, products_df, feature_matrix, similarity_matrix, is_loaded, ret, calls,
      feedback_log, users, session_cart, requests, product_price>>

\* request.user: a user of the User table, or nobody.
Requesters == users \cup {Anonymous}

\* The body of a request to the interaction endpoint: json_ok is FALSE for a
\* body json.loads rejects, interaction_type is the value of the field.
InteractionBodies ==
    {[json_ok |-> FALSE, interaction_type |-> "like"]}
    \cup {[json_ok |-> TRUE, interaction_type |-> t] : t \in {"like", "dislike", "view"}}

\* products/views.py ProductInteractionView.post, behind login_required.
ProductInteractionView_post ==
    \E user \in Requesters, product_id \in QueryIds, body \in InteractionBodies :
        /\ Idle
        /\ UNCHANGED <<outsideShop, cart_items, orders>>
        /\ IF user = Anonymous
           THEN /\ http' = Reply("ProductInteractionView", 302, user, FALSE, "login", 0)
                /\ UNCHANGED interactions
           ELSE IF ~body.json_ok
           THEN \* except json.JSONDecodeError
                /\ http' = Reply("ProductInteractionView", 400, user, FALSE, "invalid", 0)
                /\ UNCHANGED interactions
           ELSE IF body.interaction_type \notin {"like", "dislike"}
           THEN /\ http' = Reply("ProductInteractionView", 400, user, FALSE, "invalid", 0)
                /\ UNCHANGED interactions
           ELSE IF product_id \notin catalog
           THEN \* get_object_or_404 raises Http404; except Exception
                /\ http' = Reply("ProductInteractionView", 500, user, TRUE, "error", 0)
                /\ UNCHANGED interactions
           ELSE LET toggled == ProductInteractionView_toggle(interactions, user, product_id,
                                                             body.interaction_type)
                IN  /\ interactions' = toggled.table
                    /\ http' = Reply("ProductInteractionView", 200, user, TRUE,
                                     toggled.action, toggled.opposite_deleted)

InitInteractions ==
    /\ catalog \in SUBSET ProductIds
    /\ users = UserNames
    /\ FreshEngine
    /\ EmptyTables

NextInteractions ==
    \/ ProductInteractionView_post
    \/ Return

SpecInteractions == InitInteractions /\ [][NextInteractions]_vars

\* products/views.py AddToCartView.post, behind LoginRequiredMixin.
AddToCartView_post ==
    \E user \in Requesters, product_id \in QueryIds, param \in QuantityParams :
        /\ Idle
        /\ UNCHANGED <<outsideShop, interactions, orders>>
        /\ IF user = Anonymous
           THEN /\ http' = Reply("AddToCartView", 302, user, FALSE, "login", 0)
                /\ UNCHANGED cart_items
           ELSE IF product_id \notin catalog
           THEN /\ http' = Reply("AddToCartView", 404, user, FALSE, "not found", 0)
                /\ UNCHANGED cart_items
           ELSE IF ~param.numeric
           THEN \* int() raises ValueError, which no handler catches
                /\ http' = Reply("AddToCartView", 500, user, FALSE, "error", 0)
                /\ UNCHANGED cart_items
           ELSE LET quantity == IF param.given THEN param.value ELSE 1
                    existing == {item \in cart_items :
                                     item.user = user /\ item.product = product_id}
                IN  IF quantity <= 0
                    THEN /\ http' = Reply("AddToCartView", 302, user, FALSE, "invalid", 0)
                         /\ UNCHANGED cart_items
                    ELSE IF existing = {}
                    THEN /\ cart_items' = cart_items \cup {CartItem(user, product_id, quantity)}
                         /\ http' = Reply("AddToCartView", 302, user, TRUE, "added", quantity)
                    ELSE LET cart_item == CHOOSE item \in existing : TRUE
                         IN  /\ cart_item.quantity + quantity <= MaxQuantity
                             /\ cart_items' = (cart_items \ {cart_item}) \cup
                                    {CartItem(user, product_id, cart_item.quantity + quantity)}
                             /\ http' = Reply("AddToCartView", 302, user, TRUE, "updated",
                                              cart_item.quantity + quantity)

\* The mutant looks the cart item up by its id alone.
Mutant_get_object_or_404_CartItem(table, owner, product_id, user) ==
    {item \in table : item.user = owner /\ item.product = product_id}

\* get_object_or_404(CartItem, id=item_id, user=request.user): the rows the
\* lookup finds, none meaning Http404.  An item id stands for the owner and
\* the product of the row (unique_together).
get_object_or_404_CartItem(table, owner, product_id, user) ==
    {item \in table : item.user = owner /\ item.product = product_id /\ item.user = user}

\* products/views.py UpdateCartView.post: named is the row item_id names, if
\* there is one; the count of a 404 response is the number of such rows.
UpdateCartView_post ==
    \E user \in Requesters, owner \in UserNames, product_id \in ProductIds,
       param \in QuantityParams :
        LET named == {item \in cart_items : item.user = owner /\ item.product = product_id}
            found == get_object_or_404_CartItem(cart_items, owner, product_id, user)
        IN  /\ Idle
            /\ UNCHANGED <<outsideShop, interactions, orders>>
            /\ IF user = Anonymous
               THEN /\ http' = Reply("UpdateCartView", 302, user, FALSE, "login", 0)
                    /\ UNCHANGED cart_items
               ELSE IF found = {}
               THEN /\ http' = Reply("UpdateCartView", 404, user, FALSE, "not found",
                                     Cardinality(named))
                    /\ UNCHANGED cart_items
               ELSE IF ~param.numeric
               THEN /\ http' = Reply("UpdateCartView", 500, user, FALSE, "error", 0)
                    /\ UNCHANGED cart_items
               ELSE LET quantity == IF param.given THEN param.value ELSE 1
                        cart_item == CHOOSE item \in found : TRUE
                    IN  IF quantity <= 0
                        THEN /\ cart_items' = cart_items \ {cart_item}
                             /\ http' = Reply("UpdateCartView", 302, user, TRUE, "removed", 0)
                        ELSE /\ cart_items' = (cart_items \ {cart_item}) \cup
                                    {CartItem(cart_item.user, product_id, quantity)}
                             /\ http' = Reply("UpdateCartView", 302, user, TRUE, "updated",
                                              quantity)

\* products/views.py RemoveFromCartView.post
RemoveFromCartView_post ==
    \E user \in Requesters, owner \in UserNames, product_id \in ProductIds :
        LET named == {item \in cart_items : item.user = owner /\ item.product = product_id}
            found == get_object_or_404_CartItem(cart_items, owner, product_id, user)
        IN  /\ Idle
            /\ UNCHANGED <<outsideShop, interactions, orders>>
            /\ IF user = Anonymous
               THEN /\ http' = Reply("RemoveFromCartView", 302, user, FALSE, "login", 0)
                    /\ UNCHANGED cart_items
               ELSE IF found = {}
               THEN /\ http' = Reply("RemoveFromCartView", 404, user, FALSE, "not found",
                                     Cardinality(named))
                    /\ UNCHANGED cart_items
               ELSE /\ cart_items' = cart_items \ found
                    /\ http' = Reply("RemoveFromCartView", 302, user, TRUE, "removed", 0)

\* The order numbers _generate_order_number can draw.
OrderNumbers == 1..MaxOrders

\* products/views.py CheckoutView.post: filled is FALSE when a required field
\* of the form is blank.  count is the number of the user's cart lines when
\* the request arrived.
CheckoutView_post ==
    \E user \in Requesters, filled \in BOOLEAN :
        LET lines == Cardinality(CartOf(cart_items, user))
        IN  /\ Idle
            /\ UNCHANGED outsideShop
            /\ IF user = Anonymous
               THEN /\ http' = Reply("CheckoutView", 302, user, FALSE, "login", 0)
                    /\ UNCHANGED <<interactions, cart_items, orders>>
               ELSE IF CartOf(cart_items, user) = {}
               THEN /\ http' = Reply("CheckoutView", 302, user, FALSE, "empty cart", lines)
                    /\ UNCHANGED <<interactions, cart_items, orders>>
               ELSE IF ~filled
               THEN /\ http' = Reply("CheckoutView", 200, user, FALSE, "missing fields", lines)
                    /\ UNCHANGED <<interactions, cart_items, orders>>
               ELSE \E order_number \in OrderNumbers \ {order.order_number : order \in orders} :
                        LET result == checkout_transaction(user, order_number, interactions,
                                                           cart_items, orders)
                        IN  /\ interactions' = result.interactions
                            /\ cart_items' = result.cart_items
                            /\ orders' = result.orders
                            /\ http' = IF result.committed
                                       THEN Reply("CheckoutView", 302, user, TRUE, "ordered",
                                                  lines)
                                       ELSE Reply("CheckoutView", 200, user, TRUE, "error",
                                                  lines)

InitCheckout ==
    /\ catalog \in SUBSET ProductIds
    /\ users = {CHOOSE user \in UserNames : TRUE}
    /\ FreshEngine
    /\ EmptyTables

NextCheckout ==
    \/ AddToCartView_post
    \/ UpdateCartView_post
    \/ RemoveFromCartView_post
    \/ CheckoutView_post
    \/ Return

SpecCheckout == InitCheckout /\ [][NextCheckout]_vars

\* The cart views with every user of UserNames registered.
InitCarts ==
    /\ catalog \in SUBSET ProductIds
    /\ users = UserNames
    /\ FreshEngine
    /\ EmptyTables

NextCarts ==
    \/ AddToCartView_post
    \/ UpdateCartView_post
    \/ RemoveFromCartView_post
    \/ Return

SpecCarts == InitCarts /\ [][NextCarts]_vars

\* ------------------------------------------- concurrent requests to the shop

\* The largest number of interaction requests on the threads of the server.
MaxRequests == 2

\* The catalog of the checkout scenarios: the products A and B.
CheckoutCatalog == {1, 2}

\* The amount by which the administrator raises a price.
PriceStep == 10

\* A checkout request on a thread of the server: cached is the result cache
\* of the cart_items queryset (product, quantity and the select_related
\* price of each row), deleted the rows cart_items.delete() removed, stale
\* says that the cart or a price had changed between the read and the
\* transaction.
CheckoutRequest(user, pc, cached, total_amount, deleted, stale, status) ==
    [op |-> "checkout", user |-> user, pc |-> pc, cached |-> cached,
     total_amount |-> total_amount, deleted |-> deleted, stale |-> stale,
     status |-> status]

\* The rows of a cart as the queryset reads them, select_related('product').
read_cart(table, prices, user) ==
    {[product |-> item.product, quantity |-> item.quantity, price |-> prices[item.product]]
     : item \in CartOf(table, user)}

\* sum(item.get_total_price() for item in cart_items), on the rows read.
RECURSIVE cached_total(_)
cached_total(cached) ==
    IF cached = {} THEN 0
    ELSE LET item == CHOOSE x \in cached : TRUE
         IN  item.quantity * item.price + cached_total(cached \ {item})

\* The mutant reads the price of each product again when it creates the
\* order item.
Mutant_order_items(cached, prices) ==
    {OrderItem(item.product, item.quantity, prices[item.product]) : item \in cached}

\* The OrderItem rows of the loop over cart_items: product, quantity and
\* cart_item.product.price of the rows read, whatever the prices of the
\* Product table are by now.
order_items(cached, prices) ==
    {OrderItem(item.product, item.quantity, item.price) : item \in cached}

\* sum of quantity * price over the OrderItem rows of an order.
RECURSIVE order_items_total(_)
order_items_total(items) ==
    IF items = {} THEN 0
    ELSE LET item == CHOOSE x \in items : TRUE
         IN  item.quantity * item.price + order_items_total(items \ {item})

\* What a step of a checkout or interaction request leaves alone.
outsideRequests ==
    <<catalog, products_df, feature_matrix, similarity_matrix, is_loaded, ret, http,
      calls, feedback_log, users, session_cart>>

\* The administrator raises the price of a product (ProductAdmin), once.
ChangeProductPrice ==
    \E id \in catalog :
        /\ \A other \in ProductIds : product_price[other] = ProductPrice(other)
        /\ product_price' = [product_price EXCEPT ![id] = @ + PriceStep]
        /\ UNCHANGED <<outsideRequests, interactions, cart_items, orders, requests>>

\* A thread of the server enters CheckoutView.post for a logged-in user who
\* has no other checkout under way.
StartCheckout ==
    \E user \in users :
        /\ \A frame \in requests : frame.user # user
        /\ requests' = requests \cup
               {CheckoutRequest(user, "exists", {}, 0, {}, FALSE, "running")}
        /\ UNCHANGED <<outsideRequests, interactions, cart_items, orders, product_price>>

\* if not cart_items.exists(), and the check of the required fields.
CheckoutExists ==
    \E frame \in requests, filled \in BOOLEAN :
        /\ frame.op = "checkout"
        /\ frame.pc = "exists"
        /\ requests' = (requests \ {frame}) \cup
               {IF CartOf(cart_items, frame.user) = {}
                THEN [frame EXCEPT !.pc = "done", !.status = "empty cart"]
                ELSE IF ~filled
                THEN [frame EXCEPT !.pc = "done", !.status = "missing fields"]
                ELSE [frame EXCEPT !.pc = "evaluate"]}
        /\ UNCHANGED <<outsideRequests, interactions, cart_items, orders, product_price>>

\* total_amount = sum(... for item in cart_items): the queryset is read and
\* its rows are kept in the result cache.
CheckoutEvaluate ==
    \E frame \in requests :
        /\ frame.op = "checkout"
        /\ frame.pc = "evaluate"
        /\ LET cached == read_cart(cart_items, product_price, frame.user)
           IN  requests' = (requests \ {frame}) \cup
                   {[frame EXCEPT !.pc = "transaction", !.cached = cached,
                                  !.total_amount = cached_total(cached)]}
        /\ UNCHANGED <<outsideRequests, interactions, cart_items, orders, product_price>>

\* with transaction.atomic(): the order with the total computed before, an
\* OrderItem and a purchase interaction for each row of the cache, then
\* cart_items.delete(), which deletes the rows the user has in the table now.
\* A purchase row that is there already raises IntegrityError: rollback.
\* The order numbers are interchangeable: the smallest free one stands for
\* the number _generate_order_number draws.
CheckoutTransaction ==
    \E frame \in requests :
        /\ frame.op = "checkout"
        /\ frame.pc = "transaction"
        /\ UNCHANGED <<outsideRequests, product_price>>
        /\ LET purchases == {Interaction(frame.user, item.product, "purchase")
                             : item \in frame.cached}
               current == CartOf(cart_items, frame.user)
               stale == frame.cached # read_cart(cart_items, product_price, frame.user)
               free == OrderNumbers \ {order.order_number : order \in orders}
           IN  IF purchases \cap interactions # {}
               THEN /\ requests' = (requests \ {frame}) \cup
                           {[frame EXCEPT !.pc = "done", !.status = "error", !.stale = stale]}
                    /\ UNCHANGED <<interactions, cart_items, orders>>
               ELSE \E order_number \in free :
                        /\ \A other \in free : order_number <= other
                        /\ orders' = orders \cup
                               {Order(order_number, frame.user,
                                      order_items(frame.cached, product_price),
                                      frame.total_amount, "processing")}
                        /\ interactions' = interactions \cup purchases
                        /\ cart_items' = cart_items \ current
                        /\ requests' = (requests \ {frame}) \cup
                               {[frame EXCEPT !.pc = "done", !.status = "ordered",
                                              !.deleted = current, !.stale = stale]}

InitCheckoutThreads ==
    /\ catalog = CheckoutCatalog
    /\ users = {CHOOSE user \in UserNames : TRUE}
    /\ FreshEngine
    /\ EmptyTables

\* The response of a checkout request has been sent.
CheckoutReturn ==
    \E frame \in requests :
        /\ frame.op = "checkout"
        /\ frame.pc = "done"
        /\ requests' = requests \ {frame}
        /\ UNCHANGED <<outsideRequests, interactions, cart_items, orders, product_price>>

\* An AddToCartView.post request of the user on another thread, from its
\* get_or_create to its save: a new cart line, or a larger quantity.
AddToCartView_commit ==
    \E user \in users, product_id \in catalog, quantity \in 1..MaxQuantity :
        LET existing == {item \in cart_items : item.user = user /\ item.product = product_id}
        IN  /\ IF existing = {}
               THEN cart_items' = cart_items \cup {CartItem(user, product_id, quantity)}
               ELSE LET cart_item == CHOOSE item \in existing : TRUE
                    IN  /\ cart_item.quantity + quantity <= MaxQuantity
                        /\ cart_items' = (cart_items \ {cart_item}) \cup
                               {CartItem(user, product_id, cart_item.quantity + quantity)}
            /\ UNCHANGED <<outsideRequests, interactions, orders, requests, product_price>>

\* An UpdateCartView.post request of the user on another thread: the
\* quantity of one of the user's cart lines set, or the line removed.
UpdateCartView_commit ==
    \E cart_item \in cart_items, quantity \in 0..MaxQuantity :
        /\ cart_item.user \in users
        /\ quantity # cart_item.quantity
        /\ cart_items' = (cart_items \ {cart_item}) \cup
               (IF quantity <= 0 THEN {}
                ELSE {CartItem(cart_item.user, cart_item.product, quantity)})
        /\ UNCHANGED <<outsideRequests, interactions, orders, requests, product_price>>

NextCheckoutThreads ==
    \/ AddToCartView_commit
    \/ UpdateCartView_commit
    \/ ChangeProductPrice
    \/ StartCheckout
    \/ CheckoutExists
    \/ CheckoutEvaluate
    \/ CheckoutTransaction
    \/ CheckoutReturn

SpecCheckoutThreads == InitCheckoutThreads /\ [][NextCheckoutThreads]_vars

\* An interaction request on a thread of the server: found says what the
\* lookup of the existing interaction returned.
InteractionRequest(id, user, product, interaction_type, pc, found, status) ==
    [id |-> id, op |-> "interaction", user |-> user, product |-> product,
     interaction_type |-> interaction_type, pc |-> pc, found |-> found, status |-> status]

opposite_type(interaction_type) == IF interaction_type = "like" THEN "dislike" ELSE "like"

\* A thread of the server enters ProductInteractionView.post with a valid
\* body, for a product of the table.
StartInteraction ==
    \E user \in users, product \in catalog, interaction_type \in {"like", "dislike"} :
        /\ Cardinality(requests) < MaxRequests
        /\ requests' = requests \cup
               {InteractionRequest(Cardinality(requests) + 1, user, product,
                                   interaction_type, "lookup", FALSE, "running")}
        /\ UNCHANGED <<outsideRequests, interactions, cart_items, orders, product_price>>

\* existing_interaction = UserInteraction.objects.filter(...).first()
InteractionLookup ==
    \E frame \in requests :
        /\ frame.op = "interaction"
        /\ frame.pc = "lookup"
        /\ LET found == Interaction(frame.user, frame.product, frame.interaction_type)
                            \in interactions
           IN  requests' = (requests \ {frame}) \cup
                   {[frame EXCEPT !.found = found,
                                  !.pc = IF found THEN "delete existing"
                                         ELSE "delete opposite"]}
        /\ UNCHANGED <<outsideRequests, interactions, cart_items, orders, product_price>>

\* existing_interaction.delete(): no error when the row is gone already.
InteractionDeleteExisting ==
    \E frame \in requests :
        /\ frame.op = "interaction"
        /\ frame.pc = "delete existing"
        /\ interactions' = interactions \
               {Interaction(frame.user, frame.product, frame.interaction_type)}
        /\ requests' = (requests \ {frame}) \cup
               {[frame EXCEPT !.pc = "done", !.status = "removed"]}
        /\ UNCHANGED <<outsideRequests, cart_items, orders, product_price>>

\* UserInteraction.objects.filter(..., interaction_type=opposite_type).delete()
InteractionDeleteOpposite ==
    \E frame \in requests :
        /\ frame.op = "interaction"
        /\ frame.pc = "delete opposite"
        /\ interactions' = interactions \
               {Interaction(frame.user, frame.product, opposite_type(frame.interaction_type))}
        /\ requests' = (requests \ {frame}) \cup {[frame EXCEPT !.pc = "create"]}
        /\ UNCHANGED <<outsideRequests, cart_items, orders, product_price>>

\* UserInteraction.objects.create(...): IntegrityError when the row is there
\* (unique_together), which the handler answers with status 500.
InteractionCreate ==
    \E frame \in requests :
        /\ frame.op = "interaction"
        /\ frame.pc = "create"
        /\ LET row == Interaction(frame.user, frame.product, frame.interaction_type)
           IN  IF row \in interactions
               THEN /\ requests' = (requests \ {frame}) \cup
                           {[frame EXCEPT !.pc = "done", !.status = "error"]}
                    /\ UNCHANGED interactions
               ELSE /\ requests' = (requests \ {frame}) \cup
                           {[frame EXCEPT !.pc = "done", !.status = "added"]}
                    /\ interactions' = interactions \cup {row}
        /\ UNCHANGED <<outsideRequests, cart_items, orders, product_price>>

NextInteractionThreads ==
    \/ StartInteraction
    \/ InteractionLookup
    \/ InteractionDeleteExisting
    \/ InteractionDeleteOpposite
    \/ InteractionCreate

SpecInteractionThreads == InitInteractions /\ [][NextInteractionThreads]_vars

\* ------------------------------------------------- the session cart's calls

outsideSession ==
    <<products_df, feature_matrix, similarity_matrix, is_loaded, http, calls,
      feedback_log, users, interactions, cart_items, orders, requests, product_price>>

\* cart_utils.add_to_cart on the request's session.
AddToCart ==
    \E product_id \in QueryIds, quantity \in Quantities :
        LET out == add_to_cart(session_cart, catalog, product_id, quantity)
        IN  /\ Idle
            /\ \A key \in DOMAIN out.cart : out.cart[key] \in Quantities
            /\ session_cart' = out.cart
            /\ ret' = CartCall("add_to_cart", product_id, quantity, out.result, 0, 0)
            /\ UNCHANGED <<catalog, outsideSession>>

\* cart_utils.remove_from_cart
RemoveFromCart ==
    \E product_id \in QueryIds :
        LET out == remove_from_cart(session_cart, product_id)
        IN  /\ Idle
            /\ session_cart' = out.cart
            /\ ret' = CartCall("remove_from_cart", product_id, 0, out.result, 0, 0)
            /\ UNCHANGED <<catalog, outsideSession>>

\* cart_utils.update_cart_quantity
UpdateCartQuantity ==
    \E product_id \in QueryIds, quantity \in Quantities :
        LET out == update_cart_quantity(session_cart, catalog, product_id, quantity)
        IN  /\ Idle
            /\ session_cart' = out.cart
            /\ ret' = CartCall("update_cart_quantity", product_id, quantity, out.result, 0, 0)
            /\ UNCHANGED <<catalog, outsideSession>>

\* cart_utils.get_cart_items
GetCartItems ==
    LET out == get_cart_items(session_cart, catalog)
    IN  /\ Idle
        /\ session_cart' = out.cart
        /\ ret' = CartCall("get_cart_items", 0, 0, TRUE, out.cart_total, out.item_count)
        /\ UNCHANGED <<catalog, outsideSession>>

\* cart_utils.clear_cart
ClearCart ==
    /\ Idle
    /\ session_cart' = clear_cart(session_cart)
    /\ ret' = CartCall("clear_cart", 0, 0, TRUE, 0, 0)
    /\ UNCHANGED <<catalog, outsideSession>>

NextSession ==
    \/ AddProduct
    \/ DeleteProduct
    \/ AddToCart
    \/ RemoveFromCart
    \/ UpdateCartQuantity
    \/ GetCartItems
    \/ ClearCart
    \/ Return

SpecSession == Init /\ [][NextSession]_vars

\* ------------------------------------------------------------------- claims

\* The rows of the engine's snapshot and their ids.
Snapshot == IF products_df = None THEN {} ELSE Val(products_df)
SnapshotIds == {r.id : r \in Snapshot}

\* The last step was a call get_recommendations(product_id, session_key, num)
\* that returned a list.
ReturnedRecommendations == ret.op = "get_recommendations" /\ ret.status = "ok"

\* The product ids of the returned list.
RecommendedIds == {ret.recs[i].product_id : i \in 1..Len(ret.recs)}

\* C1: for a product_id of the snapshot and a count >= 1, no entry of the list
\* get_recommendations returns has the queried product_id, fallback entries
\* included.
C1_NeverRecommendsQueriedProduct ==
    (ReturnedRecommendations /\ ret.product_id \in SnapshotIds /\ ret.num >= 1)
        => ret.product_id \notin RecommendedIds

\* C2: no product_id occurs twice in a list get_recommendations returns.
C2_NoDuplicateProduct ==
    ReturnedRecommendations
        => \A i, j \in 1..Len(ret.recs) :
               i # j => ret.recs[i].product_id # ret.recs[j].product_id

\* C3: for a product_id of the snapshot the returned list has at most count
\* entries and at most (number of products - 1) entries.
C3_LengthBounds ==
    (ReturnedRecommendations /\ ret.product_id \in SnapshotIds /\ ret.num >= 1)
        => /\ Len(ret.recs) <= ret.num
           /\ Len(ret.recs) <= Cardinality(Snapshot) - 1

\* C4: when count exceeds the number of other products, get_recommendations
\* for a known product returns every other product once and nothing else,
\* without raising.
C4_AllOthersWhenCountExceeds ==
    (/\ ret.op = "get_recommendations"
     /\ ret.product_id \in SnapshotIds
     /\ ret.num > Cardinality(Snapshot) - 1)
        => /\ ret.status = "ok"
           /\ Len(ret.recs) = Cardinality(Snapshot) - 1
           /\ RecommendedIds = SnapshotIds \ {ret.product_id}

\* C5: get_recommendations for a product_id that is not in the catalog the
\* engine has loaded returns, for a count >= 1, a non-empty list of fallback
\* entries when that catalog is non-empty and the empty list when it is empty;
\* it does not raise.
C5_UnknownProductFallsBack ==
    (ret.op = "get_recommendations" /\ ret.num >= 1 /\ ret.product_id \notin SnapshotIds)
        => /\ ret.status = "ok"
           /\ Snapshot # {} =>
                 /\ Len(ret.recs) >= 1
                 /\ \A i \in 1..Len(ret.recs) :
                        /\ ret.recs[i].product_id \in SnapshotIds
                        /\ ret.recs[i].similarity_score = FallbackSimilarityScore
                        /\ ret.recs[i].final_score = FallbackFinalScore
           /\ Snapshot = {} => ret.recs = <<>>

\* C5 witness: a call for an unknown product on a non-empty snapshot has
\* returned fallback entries.
C5_Witness ==
    /\ ret.op = "get_recommendations"
    /\ ret.num >= 1
    /\ ret.product_id \notin SnapshotIds
    /\ Snapshot # {}
    /\ Len(ret.recs) >= 1

\* C6: the similarity matrix of every loaded snapshot is symmetric and has a
\* diagonal of zeros; the matrix of a loaded engine is indexed by the
\* products of its snapshot.
C6_SymmetricZeroDiagonal ==
    /\ similarity_matrix # None =>
          LET matrix == Val(similarity_matrix)
          IN  \A p \in DOMAIN matrix :
                  /\ matrix[p] = matrix[<<p[2], p[1]>>]
                  /\ matrix[<<p[1], p[1]>>] = 0
    /\ is_loaded =>
          /\ similarity_matrix # None
          /\ DOMAIN Val(similarity_matrix) = SnapshotIds \X SnapshotIds

\* C6 witness: a loaded matrix over several products with a positive
\* off-diagonal entry.
C6_Witness ==
    /\ is_loaded
    /\ similarity_matrix # None
    /\ \E p \in DOMAIN Val(similarity_matrix) :
           p[1] # p[2] /\ Val(similarity_matrix)[p] > 0

\* A get_recommendations (count >= 1) or get_stats call has returned nothing:
\* the empty list, resp. zero counts.
ReturnedEmpty ==
    /\ ret.status = "ok"
    /\ ret.recs = <<>>
    /\ ret.stats.total_products = 0
    /\ ret.stats.unique_categories = 0

\* The last step was a get_recommendations call with count >= 1 or a
\* get_stats call.
QueryCall ==
    \/ ret.op = "get_recommendations" /\ ret.num >= 1
    \/ ret.op = "get_stats"

C8_ReadFailureNeverPropagates ==
    (QueryCall /\ ret.read_failed) => ReturnedEmpty

\* C8 witness: a get_recommendations call with an identity, for a product of
\* the catalog, whose catalog read failed.
C8_Witness ==
    /\ ret.op = "get_recommendations"
    /\ ret.num >= 1
    /\ ret.read_failed
    /\ ret.product_id \in catalog
    /\ ret.session_key # NoSessionKey

\* C9: get_recommendations called with a negative count is rejected with an
\* error, for known and unknown product_id alike; it returns no list.
C9_NegativeCountRejected ==
    (ret.op = "get_recommendations" /\ ret.num < 0) => ret.status # "ok"

\* C10: a request to a recommendations endpoint asks the engine for a count
\* in 1..20, and the response holds at most 20 recommendations.
C10_EndpointClampsCount ==
    (ret.op \in {"get_recommendations", "get_recommendations(user_id)"}
     /\ http.view # "none")
        => /\ ret.num >= MinNumRecommendations
           /\ ret.num <= MaxNumRecommendations
           /\ http.count <= MaxNumRecommendations

\* The entry at position i of the returned list came from the ranking, not
\* from the fallback.
Ranked(i) == ret.recs[i].reason[1] # "Popular"

\* The similarity of two products in the engine's matrix.
BaseSimilarity(product_id, other_id) == Val(similarity_matrix)[<<product_id, other_id>>]

\* C11: a get_recommendations call that runs while load_data or refresh_data
\* replaces the snapshot never reads the product table of one catalog version
\* together with the similarity matrix of another.
C11_SnapshotReplacedAtomically ==
    \A frame \in BagToSet(calls) : ~frame.mixed

\* The number of similarity matrices the calls have built.
Builds == SumOver(calls, BagToSet(calls), [frame \in BagToSet(calls) |-> frame.builds])

\* C12: when get_recommendations calls race on an unloaded engine (no
\* refresh_data, no failed read), the snapshot is built at most twice in
\* total, however many calls there are.
C12_AtMostTwoBuilds ==
    (\A frame \in BagToSet(calls) : frame.op = "get_recommendations" /\ ~frame.load_failed)
        => Builds <= 2

\* C13: when the only interaction of an identity is one dislike of a product,
\* a later get_recommendations call for that identity scores the product at
\* no more than 0.3 of its base similarity (the direct multiplier 0.3, times
\* a category factor that a dislike does not raise above 1).
C13_SingleDislikeMultiplier ==
    (/\ ReturnedRecommendations
     /\ Len(feedback_log) = 1
     /\ feedback_log[1].feedback = "dislike"
     /\ feedback_log[1].session_key = ret.session_key)
        => \A i \in 1..Len(ret.recs) :
               (Ranked(i) /\ ret.recs[i].product_id = feedback_log[1].product_id)
                   => 10 * ret.recs[i].final_score
                          <= 3 * BaseSimilarity(ret.product_id, ret.recs[i].product_id)

\* C14: on the catalog {A: Electronics 100, B: Electronics 120, C: Books 20},
\* get_recommendations(A, no identity, 2) returns B and then C, with
\* similarity(B) > similarity(C) >= 0.
C14_ScenarioRanksBAboveC ==
    (/\ ReturnedRecommendations
     /\ SnapshotIds = {1, 2, 3}
     /\ ret.product_id = 1
     /\ ret.session_key = NoSessionKey
     /\ ret.num = 2)
        => /\ Len(ret.recs) = 2
           /\ ret.recs[1].product_id = 2
           /\ ret.recs[2].product_id = 3
           /\ ret.recs[1].similarity_score > ret.recs[2].similarity_score
           /\ ret.recs[2].similarity_score >= 0

\* C15: when an identity has liked two Electronics products, a request of that
\* identity for a third Electronics product returns every ranked Electronics
\* candidate with a final_score above the one the request gets without an
\* identity, which is the base similarity.
C15_LikedCategoryBoost ==
    (/\ ReturnedRecommendations
     /\ ret.session_key # NoSessionKey
     /\ Len(feedback_log) = 2
     /\ \A k \in 1..2 :
            /\ feedback_log[k].feedback = "like"
            /\ feedback_log[k].session_key = ret.session_key
            /\ feedback_log[k].product_id \in SnapshotIds \ {ret.product_id}
            /\ ProductCategory(feedback_log[k].product_id) = "Electronics"
     /\ feedback_log[1].product_id # feedback_log[2].product_id
     /\ ret.product_id \in SnapshotIds
     /\ ProductCategory(ret.product_id) = "Electronics")
        => \A i \in 1..Len(ret.recs) :
               (Ranked(i) /\ ret.recs[i].category = "Electronics")
                   => ret.recs[i].final_score
                          > BaseSimilarity(ret.product_id, ret.recs[i].product_id)

\* The ranked entries of a list returned to a request without an identity
\* carry the scores of the engine's similarity matrix.
ScoresFromMatrix ==
    (ReturnedRecommendations /\ ret.session_key = NoSessionKey)
        => \A i \in 1..Len(ret.recs) :
               Ranked(i) => ret.recs[i].similarity_score
                                = BaseSimilarity(ret.product_id, ret.recs[i].product_id)

\* A refresh_data call on a loaded engine whose snapshot holds the rows of the
\* catalog leaves the engine loaded with the same snapshot and the same matrix.
RefreshReproduces ==
    (/\ ret'.op = "refresh_data"
     /\ ~ret'.read_failed
     /\ is_loaded
     /\ products_df = Some(CatalogRows))
        => /\ is_loaded'
           /\ products_df' = products_df
           /\ similarity_matrix' = similarity_matrix

C17_FeedbackAppendsOneRow == Cardinality(interactions) = Len(feedback_log)

\* C18: whatever like and dislike requests the interaction endpoint has
\* handled, one at a time, no user holds a like row and a dislike row for the
\* same product.
C18_NeverLikeAndDislike ==
    \A user \in UserNames, product \in ProductIds :
        ~(/\ Interaction(user, product, "like") \in interactions
          /\ Interaction(user, product, "dislike") \in interactions)

\* C18 witness: a request has added an interaction and deleted the opposite
\* one of the same user and product.
C18_Witness ==
    /\ http.view = "ProductInteractionView"
    /\ http.action = "added"
    /\ http.count = 1
    /\ \E row \in interactions : row.user # http.user

\* A checkout POST of a logged-in user with a non-empty cart and all required
\* fields creates one order with an item per cart line, records a purchase
\* interaction per product and empties the cart.
CheckoutCompletes ==
    (http'.view = "CheckoutView" /\ http'.accepted)
        => LET user == http'.user
               cart == CartOf(cart_items, user)
           IN  /\ Cardinality(orders') = Cardinality(orders) + 1
               /\ \E order \in orders' \ orders :
                      /\ order.user = user
                      /\ {item.product : item \in order.items}
                             = {item.product : item \in cart}
                      /\ Cardinality(order.items) = Cardinality(cart)
               /\ \A item \in cart :
                      Interaction(user, item.product, "purchase") \in interactions'
               /\ CartOf(cart_items', user) = {}

\* C19: every checkout POST by a logged-in user with a non-empty cart and
\* non-blank required fields creates exactly one order with one order item
\* per cart line, records a purchase interaction per product and leaves the
\* cart empty.
C19_CheckoutAlwaysCompletes == [][CheckoutCompletes]_vars

\* The quantity the session cart holds for a key, 0 for a key it does not hold.
QuantityOf(cart, key) == IF key \in DOMAIN cart THEN cart[key] ELSE 0

\* add_to_cart for a product of the table returns True, makes the quantity of
\* the product the earlier one (0 if absent) plus the given one, and changes
\* no other entry.
AddAccumulates ==
    (ret'.op = "add_to_cart" /\ ret'.product_id \in catalog)
        => /\ ret'.result
           /\ DOMAIN session_cart' = DOMAIN session_cart \cup {str(ret'.product_id)}
           /\ \A key \in DOMAIN session_cart' :
                  QuantityOf(session_cart', key) =
                      QuantityOf(session_cart, key)
                      + (IF key = str(ret'.product_id) THEN ret'.quantity ELSE 0)

\* C20: add_to_cart(product_id, quantity) for an existing product returns
\* True and sets the cart quantity of the product to its previous quantity (0
\* if absent) plus quantity, leaving the other entries alone; repeated adds
\* accumulate.
C20_AddToCartAccumulates == [][AddAccumulates]_vars

\* C20 witness: an add_to_cart call has raised the quantity of a product that
\* was in the cart already, next to another entry.
C20_Witness ==
    /\ ret.op = "add_to_cart"
    /\ ret.result
    /\ ret.quantity > 0
    /\ session_cart[str(ret.product_id)] > ret.quantity
    /\ \E key \in DOMAIN session_cart : key # str(ret.product_id)

\* update_cart_quantity for a product of the table returns True; a positive
\* quantity becomes the quantity of the product, any other quantity takes the
\* product out of the cart; the cart then shows no quantity <= 0 for it.
UpdateSets ==
    (ret'.op = "update_cart_quantity" /\ ret'.product_id \in catalog)
        => LET key == str(ret'.product_id)
           IN  /\ ret'.result
               /\ ret'.quantity > 0 =>
                      (key \in DOMAIN session_cart' /\ session_cart'[key] = ret'.quantity)
               /\ ret'.quantity <= 0 => key \notin DOMAIN session_cart'
               /\ key \in DOMAIN session_cart' => session_cart'[key] > 0

\* C21: update_cart_quantity(product_id, quantity) for an existing product
\* returns True, sets the cart quantity of the product to quantity when
\* quantity > 0 and removes the product when quantity <= 0; after the call
\* the cart does not show the product with a quantity <= 0.
C21_UpdateCartQuantitySets == [][UpdateSets]_vars

\* C21 witness: an update_cart_quantity call with quantity 0 has taken a
\* product out of a cart that still holds another one.
C21_Witness ==
    /\ ret.op = "update_cart_quantity"
    /\ ret.result
    /\ ret.quantity = 0
    /\ ret.product_id \in catalog
    /\ str(ret.product_id) \notin DOMAIN session_cart
    /\ session_cart # EmptyCart

\* A checkout POST that places no order changes no table.
CheckoutFailureChangesNothing ==
    (http'.view = "CheckoutView" /\ http'.action # "ordered")
        => UNCHANGED <<interactions, cart_items, orders>>

\* C26: a checkout POST that does not succeed (no login, empty cart, a blank
\* required field, an error inside the order transaction) creates no Order,
\* no OrderItem and no purchase interaction and leaves the cart items as
\* they were.
C26_FailedCheckoutChangesNothing == [][CheckoutFailureChangesNothing]_vars

\* C26 witness: the transaction of a checkout failed for a user who has a
\* non-empty cart and an earlier order.
C26_Witness ==
    /\ http.view = "CheckoutView"
    /\ http.action = "error"
    /\ CartOf(cart_items, http.user) # {}
    /\ \E order \in orders : order.user = http.user

\* The calls of update_with_feedback made for an identity and a product.
FeedbackOf(session_key, product_id) ==
    {k \in 1..Len(feedback_log) :
        /\ feedback_log[k].session_key = session_key
        /\ feedback_log[k].product_id = product_id}

\* C22: the reason of a ranked recommendation is "Previously liked by you"
\* when the identity of the request has liked the candidate, and the reason
\* "Based on your interest in {category}" is given only to a candidate the
\* identity has not interacted with.
C22_ReasonPriority ==
    (ReturnedRecommendations /\ ret.session_key # NoSessionKey)
        => \A i \in 1..Len(ret.recs) :
               LET direct == FeedbackOf(ret.session_key, ret.recs[i].product_id)
               IN  Ranked(i) =>
                       /\ (direct # {} /\ \A k \in direct : feedback_log[k].feedback = "like")
                              => ret.recs[i].reason[1] = "Previously"
                       /\ ret.recs[i].reason[1] = "Based" => direct = {}

\* C23: when the only interaction of an identity is a like of one product, a
\* ranked candidate of the same category (another product) gets the category
\* factor 1.0 + 0.5 * 1 = 1.5: its final_score is at least 1.5 times its base
\* similarity (the price factor does not lower it).
C23_CategoryFactor ==
    (/\ ReturnedRecommendations
     /\ Len(feedback_log) = 1
     /\ feedback_log[1].feedback = "like"
     /\ feedback_log[1].session_key = ret.session_key
     /\ feedback_log[1].product_id \in SnapshotIds)
        => \A i \in 1..Len(ret.recs) :
               (/\ Ranked(i)
                /\ ret.recs[i].product_id # feedback_log[1].product_id
                /\ ret.recs[i].category = ProductCategory(feedback_log[1].product_id))
                   => 2 * ret.recs[i].final_score
                          >= 3 * BaseSimilarity(ret.product_id, ret.recs[i].product_id)

C25_RankedFirstDescending ==
    (ReturnedRecommendations /\ ret.product_id \in SnapshotIds)
        => \A i, j \in 1..Len(ret.recs) :
               /\ Ranked(i) => ret.recs[i].final_score > 0
               /\ (i < j /\ Ranked(j)) =>
                      /\ Ranked(i)
                      /\ ret.recs[i].final_score >= ret.recs[j].final_score

\* C25 witness: a response with two ranked entries of different scores,
\* followed by a fallback entry.
C25_Witness ==
    /\ ReturnedRecommendations
    /\ ret.product_id \in SnapshotIds
    /\ Len(ret.recs) >= 3
    /\ Ranked(1)
    /\ Ranked(2)
    /\ ret.recs[1].final_score > ret.recs[2].final_score
    /\ ~Ranked(3)

\* A request to the update or the remove endpoint changes cart items of the
\* requesting user only, and a request answered with not-found changes none.
OnlyOwnCartItems ==
    (http'.view \in {"UpdateCartView", "RemoveFromCartView"})
        => /\ \A item \in (cart_items \ cart_items') \cup (cart_items' \ cart_items) :
                  item.user = http'.user
           /\ http'.status = 404 => cart_items' = cart_items

\* C30: the update and the remove endpoint change cart items of the
\* requesting user only; a request that names the cart item of another user
\* is answered with not-found and leaves all cart items as they were.
C30_OnlyOwnCartItems == [][OnlyOwnCartItems]_vars

\* C30 witness: a user with a cart of their own named the cart item of
\* another user and got not-found.
C30_Witness ==
    /\ http.view \in {"UpdateCartView", "RemoveFromCartView"}
    /\ http.status = 404
    /\ http.count = 1
    /\ CartOf(cart_items, http.user) # {}

\* C27: the total_amount of every order a checkout has created is the sum of
\* quantity * price over the OrderItem rows of the order, also when prices
\* or cart quantities were changed while the checkout ran.
C27_TotalMatchesItems ==
    \A order \in orders : order.total_amount = order_items_total(order.items)

\* C27 witness: a checkout has placed an order with a positive total although
\* the cart or a price had changed between its read and its transaction.
C27_Witness ==
    \E frame \in requests :
        /\ frame.op = "checkout"
        /\ frame.status = "ordered"
        /\ frame.stale
        /\ frame.total_amount > 0

\* C28: every cart item a checkout deletes from the cart is an OrderItem of
\* the order it created, also when an add-to-cart request of the user ran
\* between the steps of the checkout.
C28_DeletedItemsAreOrdered ==
    \A frame \in requests :
        (frame.op = "checkout" /\ frame.status = "ordered")
            => {item.product : item \in frame.deleted}
                   \subseteq {item.product : item \in frame.cached}

\* C29: when the concurrent like and dislike requests of a user for a product
\* have all been answered, the user holds at most one of the like row and
\* the dislike row of the product.
C29_ConcurrentLikeDislike ==
    (\A frame \in requests : frame.pc = "done")
        => \A user \in UserNames, product \in ProductIds :
               ~(/\ Interaction(user, product, "like") \in interactions
                 /\ Interaction(user, product, "dislike") \in interactions)

====
